---- MODULE Spec2Model ----
(***************************************************************************)
(* Model of the buildlogger REST handlers of rest/buildlogger_routes.go.  *)
(*                                                                         *)
(* One request is served at a time by a freshly made handler (Factory),   *)
(* which gimlet drives through Parse and then, when Parse returned nil,    *)
(* through Run.  The log store (data.Connector) is external: every call    *)
(* to it is recorded in `calls` and its return value is drawn from the     *)
(* outcomes a store can produce.                                           *)
(*                                                                         *)
(* All seven routes of the file are modelled.  Run is split at every       *)
(* store call: one step issues the call, a later step receives what the    *)
(* store returned, so the state in which a call is pending is a state of   *)
(* the model.                                                              *)
(*                                                                         *)
(* Instants are natural numbers; 0 is the zero instant of time.Time.       *)
(* Fields that are copied verbatim from the request into the options and   *)
(* that no branch reads (the path variables id and task_id, ProcessName,   *)
(* PrintTime, PrintPriority, and Tags on the by-task and by-test-name      *)
(* payload routes) are left out.  Tags are kept on the metadata routes     *)
(* and on the group route, where Run builds them.                          *)
(*                                                                         *)
(* int is 64 bits wide, as on every build variant of evergreen.yaml.  A    *)
(* number that can exceed 32 bits (the digits of an integer parameter, an  *)
(* int field of the handler or of the options) is held as three limbs      *)
(* [a, b, c] that stand for a * 2^42 + b * 2^21 + c with b and c in        *)
(* 0..2^21 - 1; an int has a in -2^21..2^21 - 1.                           *)
(***************************************************************************)
EXTENDS Integers, Sequences, FiniteSets, TLC

\* ------------------------------------------------------------------ bounds
MaxT == 1        \* instants are 0..MaxT
MaxLogs == 2     \* metadata entries the store returns for one request
MaxTags == 2     \* values of the tags parameter
MaxInt == 1      \* integer parameters are -1..MaxInt

\* --------------------------------------------------------------- constants
softSizeLimit == 10 * 1024 * 1024
StatusNotFound == 404
trueString == "true"

\* Limbs of a number: Num(i) is i, for an i small enough to be written down.
Limb == 2^21
Num(i) == [a |-> (i \div Limb) \div Limb, b |-> (i \div Limb) % Limb, c |-> i % Limb]

\* The range of int, and its largest and smallest value: 2^63 - 1 and -2^63.
InIntRange(x) == (-Limb) <= x.a /\ x.a < Limb
IntMax == [a |-> Limb - 1, b |-> Limb - 1, c |-> Limb - 1]
IntMin == [a |-> -Limb, b |-> 0, c |-> 0]

\* Comparison of an int with 0.
IntLeqZero(x) == x.a < 0 \/ (x.a = 0 /\ x.b = 0 /\ x.c = 0)
IntGtZero(x) == ~IntLeqZero(x)

ZeroTime == 0
Instants == 0..MaxT

\* ------------------------------------------------------------ input spaces
Handlers == {"byID", "metaByID", "byTask", "metaByTask", "byTestName", "metaByTestName",
             "group"}

\* A raw query value: absent (or empty), malformed, or well formed.  A well-formed
\* integer parameter is a digit string, held as the number it spells: a small
\* number, one beyond 32 bits (2147483648, -2147483649), or one beyond the range
\* of int (9223372036854775808, -9223372036854775809).
Absent == [k |-> "absent", v |-> 0]
Bad == [k |-> "bad", v |-> 0]
Above32 == [k |-> "val", v |-> [a |-> 0, b |-> 1024, c |-> 0]]
Below32 == [k |-> "val", v |-> [a |-> -1, b |-> Limb - 1025, c |-> Limb - 1]]
TooBig == [k |-> "val", v |-> [a |-> Limb, b |-> 0, c |-> 0]]
TooSmall == [k |-> "val", v |-> [a |-> (-Limb) - 1, b |-> Limb - 1, c |-> Limb - 1]]
RawInts ==
  {Absent, Bad, Above32, Below32, TooBig, TooSmall}
    \cup {[k |-> "val", v |-> Num(i)] : i \in (-1)..MaxInt}
RawTimes == {Absent, Bad} \cup {[k |-> "val", v |-> t] : t \in Instants}
RawFlags == {"true", "false", ""}
TagNames == {"a", "b"}
GroupIDs == {"g", "a"}
TestNames == {"t"}

SeqsUpTo(S, n) == UNION {[1..m -> S] : m \in 0..n}
TagLists == SeqsUpTo(TagNames, MaxTags)

\* What the store can return.
LogEntries == [CreatedAt : Instants, CompletedAt : Instants]
LogLists == SeqsUpTo(LogEntries, MaxLogs)
NilErr == [type |-> "nil", StatusCode |-> 0]
StoreErrors == {[type |-> "ErrorResponse", StatusCode |-> 404],
                [type |-> "ErrorResponse", StatusCode |-> 500],
                [type |-> "error", StatusCode |-> 0]}
Payloads == {"log"}

\* ------------------------------------------------------------------- state
VARIABLES
  handler,     \* the route that serves the request
  pc,          \* position of the request: parse, run, a pending store call, done
  req,         \* the raw query parameters handed to Parse (Run is handed none)
  h,           \* the handler's fields, as Parse set them
  catcher,     \* the errors Parse collected, in the order they were added
  opts,        \* data.BuildloggerOptions built by Run
  calls,       \* store calls issued so far: function name and options
  rets,        \* the error each returned store call gave (NilErr on success)
  testLogs,    \* Run's local testLogs while it is in scope
  globalLogs,  \* Run's local globalLogs
  ret,         \* next and paginated as the payload call returned them
  resp         \* the response (kind "none" until Run or Parse has answered)

vars == <<handler, pc, req, h, catcher, opts, calls, rets, testLogs, globalLogs, ret, resp>>

ZeroRange == [StartAt |-> ZeroTime, EndAt |-> ZeroTime]
ZeroReq == [limit |-> Absent, n |-> Absent, execution |-> Absent, start |-> Absent,
            end |-> Absent, paginate |-> "", tags |-> <<>>, groupID |-> "", name |-> ""]
ZeroHandler == [limit |-> Num(0), n |-> Num(0), execution |-> Num(0), paginate |-> FALSE,
                tr |-> ZeroRange, tags |-> <<>>, groupID |-> "", name |-> ""]
ZeroOpts == [TestName |-> "", Tags |-> <<>>, TimeRange |-> ZeroRange, Execution |-> Num(0),
             Limit |-> Num(0), Tail |-> Num(0), SoftSizeLimit |-> Num(0)]
ZeroRet == [next |-> ZeroTime, paginated |-> FALSE]
NoResp == [kind |-> "none", err |-> NilErr, data |-> "", list |-> <<>>, pages |-> <<>>]
ParseErr == [type |-> "parse", StatusCode |-> 400]

\* ----------------------------------------------------------------- helpers

\* util.TimeRange.IsZero: both bounds are the zero instant.
TimeRangeIsZero(tr) == tr.StartAt = ZeroTime /\ tr.EndAt = ZeroTime

\* parseTimeRange: the range the two bounds give (an absent bound stays zero) and
\* the error, which names every malformed bound ({} is nil).
parseTimeRange(start, end) ==
  [tr |-> [StartAt |-> IF start.k = "val" THEN start.v ELSE ZeroTime,
           EndAt |-> IF end.k = "val" THEN end.v ELSE ZeroTime],
   err |-> {p \in {"start"} : start.k = "bad"} \cup {p \in {"end"} : end.k = "bad"}]

\* strconv.Atoi on the first value of a parameter: the value and nil when well
\* formed, 0 and ErrSyntax when it is no number, the nearest int and ErrRange when
\* the digits are out of range.  The handlers store the value in either case.
AtoiVal(raw) ==
  IF raw.k # "val" THEN Num(0)
  ELSE IF InIntRange(raw.v) THEN raw.v
  ELSE IF raw.v.a < 0 THEN IntMin ELSE IntMax
AtoiErr(name, raw) ==
  IF raw.k = "bad" \/ (raw.k = "val" /\ ~InIntRange(raw.v)) THEN {name} ELSE {}

\* The guarded parse `if len(vals[p]) > 0 { h.p, err = Atoi(...); catcher.Add(err) }`.
\* err keeps its previous value when the parameter is absent, but is not added again.
CatcherAdd(c, err) == IF err = {} THEN c ELSE Append(c, err)

\* catcher.Resolve(): nil exactly when nothing was added.
Resolve(c) == IF Len(c) = 0 THEN {} ELSE UNION {c[i] : i \in 1..Len(c)}

\* time.Time.Format(time.RFC3339) of an instant counted in seconds from the zero instant.
FormatRFC3339(t) ==
  [year |-> 1, month |-> 1, day |-> 1 + (t \div 86400), hour |-> (t % 86400) \div 3600,
   minute |-> (t % 3600) \div 60, second |-> t % 60, zone |-> "Z"]

\* ------------------------------------------------------------------- Parse

\* The errors each Parse adds to its catcher, in the order of the code.
logGetByIDHandler_Catcher(r) ==
  CatcherAdd(CatcherAdd(<<>>, parseTimeRange(r.start, r.end).err), AtoiErr("limit", r.limit))

logGetByTaskIDHandler_FailFast(r) ==
  LET c == CatcherAdd(CatcherAdd(CatcherAdd(CatcherAdd(<<>>,
             parseTimeRange(r.start, r.end).err),
             AtoiErr("execution", r.execution)),
             AtoiErr("limit", r.limit)),
             AtoiErr("n", r.n))
  IN IF Len(c) = 0 THEN c ELSE <<c[1]>>

logGetByTaskIDHandler_Catcher(r) ==
  CatcherAdd(CatcherAdd(CatcherAdd(CatcherAdd(<<>>,
    parseTimeRange(r.start, r.end).err),
    AtoiErr("execution", r.execution)),
    AtoiErr("limit", r.limit)),
    AtoiErr("n", r.n))

logGetByTestNameHandler_Catcher(r) ==
  CatcherAdd(CatcherAdd(<<>>, parseTimeRange(r.start, r.end).err), AtoiErr("limit", r.limit))

\* The time range is parsed only when start or end is a non-empty string.
logGroupHandler_ParsesRange(r) == r.start.k # "absent" \/ r.end.k # "absent"

logGroupHandler_Catcher(r) ==
  CatcherAdd(IF logGroupHandler_ParsesRange(r)
               THEN CatcherAdd(<<>>, parseTimeRange(r.start, r.end).err)
               ELSE <<>>,
             AtoiErr("limit", r.limit))

\* What gimlet does with Parse's return value: Run is called only after nil, any
\* error ends the request with a 400 response.
ParseReturns(r, hh, c) ==
  /\ req' = r
  /\ h' = hh
  /\ catcher' = c
  /\ pc' = IF Resolve(c) = {} THEN "run" ELSE "done"
  /\ resp' = IF Resolve(c) = {} THEN resp
             ELSE [NoResp EXCEPT !.kind = "error", !.err = ParseErr]
  /\ UNCHANGED <<handler, opts, calls, rets, testLogs, globalLogs, ret>>

logGetByIDHandler_Parse ==
  /\ handler = "byID" /\ pc = "parse"
  /\ \E start \in RawTimes, end \in RawTimes, lim \in RawInts, pg \in RawFlags :
       LET r == [ZeroReq EXCEPT !.start = start, !.end = end, !.limit = lim, !.paginate = pg]
       IN ParseReturns(r,
            [h EXCEPT !.paginate = (pg = trueString),
                      !.tr = parseTimeRange(start, end).tr,
                      !.limit = AtoiVal(lim)],
            logGetByIDHandler_Catcher(r))

logGetByTaskIDHandler_Parse ==
  /\ handler = "byTask" /\ pc = "parse"
  /\ \E start \in RawTimes, end \in RawTimes, lim \in RawInts, pg \in RawFlags,
        ex \in RawInts, n \in RawInts :
       LET r == [ZeroReq EXCEPT !.start = start, !.end = end, !.limit = lim, !.paginate = pg,
                                !.execution = ex, !.n = n]
       IN ParseReturns(r,
            [h EXCEPT !.paginate = (pg = trueString),
                      !.tr = parseTimeRange(start, end).tr,
                      !.execution = AtoiVal(ex),
                      !.limit = AtoiVal(lim),
                      !.n = AtoiVal(n)],
            logGetByTaskIDHandler_Catcher(r))

logGetByTestNameHandler_Parse ==
  /\ handler = "byTestName" /\ pc = "parse"
  /\ \E start \in RawTimes, end \in RawTimes, lim \in RawInts, pg \in RawFlags,
        name \in TestNames :
       LET r == [ZeroReq EXCEPT !.start = start, !.end = end, !.limit = lim, !.paginate = pg,
                                !.name = name]
       IN ParseReturns(r,
            [h EXCEPT !.name = name,
                      !.paginate = (pg = trueString),
                      !.tr = parseTimeRange(start, end).tr,
                      !.limit = AtoiVal(lim)],
            logGetByTestNameHandler_Catcher(r))

\* Parse of the three metadata routes has no catcher and always returns nil.
logMetaGetByIDHandler_Parse ==
  /\ handler = "metaByID" /\ pc = "parse"
  /\ ParseReturns(ZeroReq, h, <<>>)

logMetaGetByTaskIDHandler_Parse ==
  /\ handler = "metaByTask" /\ pc = "parse"
  /\ \E tg \in TagLists :
       LET r == [ZeroReq EXCEPT !.tags = tg]
       IN ParseReturns(r, [h EXCEPT !.tags = tg], <<>>)

logMetaGetByTestNameHandler_Parse ==
  /\ handler = "metaByTestName" /\ pc = "parse"
  /\ \E name \in TestNames, tg \in TagLists :
       LET r == [ZeroReq EXCEPT !.name = name, !.tags = tg]
       IN ParseReturns(r, [h EXCEPT !.name = name, !.tags = tg], <<>>)

logGroupHandler_Parse ==
  /\ handler = "group" /\ pc = "parse"
  /\ \E start \in RawTimes, end \in RawTimes, lim \in RawInts, pg \in RawFlags,
        name \in TestNames, gid \in GroupIDs, tg \in TagLists :
       LET r == [ZeroReq EXCEPT !.start = start, !.end = end, !.limit = lim, !.paginate = pg,
                                !.name = name, !.groupID = gid, !.tags = tg]
       IN ParseReturns(r,
            [h EXCEPT !.name = name,
                      !.groupID = gid,
                      !.tags = tg,
                      !.paginate = (pg = trueString),
                      !.tr = IF logGroupHandler_ParsesRange(r)
                               THEN parseTimeRange(start, end).tr ELSE h.tr,
                      !.limit = AtoiVal(lim)],
            logGroupHandler_Catcher(r))

\* --------------------------------------------------------------- responses

baseURL == "https://cedar.mongodb.com"

MakeJSONErrorResponder(err) == [NoResp EXCEPT !.kind = "error", !.err = err]

\* The body is the value handed over: one entry or a list of entries.
NewJSONResponse(list) == [NoResp EXCEPT !.kind = "json", !.list = list]

Page(key, relation) ==
  [BaseURL |-> baseURL, KeyQueryParam |-> "start", LimitQueryParam |-> "limit",
   Key |-> FormatRFC3339(key), Relation |-> relation]

newBuildloggerResponder_AlwaysPages(data, last, next, paginated, setPagesOK) ==
  IF setPagesOK
    THEN [NoResp EXCEPT !.kind = "text", !.data = data,
                        !.pages = <<Page(last, "prev"), Page(next, "next")>>]
    ELSE MakeJSONErrorResponder([type |-> "error", StatusCode |-> 0])

\* setPagesOK is the outcome of gimlet's resp.SetPages(pages).
newBuildloggerResponder(data, last, next, paginated, setPagesOK) ==
  IF paginated
    THEN IF setPagesOK
           THEN [NoResp EXCEPT !.kind = "text", !.data = data,
                               !.pages = <<Page(last, "prev"), Page(next, "next")>>]
           ELSE MakeJSONErrorResponder([type |-> "error", StatusCode |-> 0])
    ELSE [NoResp EXCEPT !.kind = "text", !.data = data]

\* ------------------------------------------------------------ store outcomes

\* A payload call returns (data, next, paginated, err).
PayloadOutcomes ==
  [data : Payloads, next : Instants, paginated : BOOLEAN, err : {NilErr}]
    \cup [data : {""}, next : {ZeroTime}, paginated : {FALSE}, err : StoreErrors]

\* resp.SetPages is reached only for a paginated result; it returns nil or an error.
SetPagesOutcomes(out) == IF out.err = NilErr /\ out.paginated THEN BOOLEAN ELSE {TRUE}

\* FindLogMetadataByID returns (log, err).
MetaByIDOutcomes ==
  [log : LogEntries, err : {NilErr}]
    \cup [log : {[CreatedAt |-> ZeroTime, CompletedAt |-> ZeroTime]}, err : StoreErrors]

\* A metadata call returns (logs, err).
MetaOutcomes(maxLen) ==
  [logs : SeqsUpTo(LogEntries, maxLen), err : {NilErr}]
    \cup [logs : {<<>>}, err : StoreErrors]

IssueCall(fn, o) == calls' = Append(calls, [fn |-> fn, opts |-> o])

\* Mutation: the responder is handed the start of the options' range, which the
\* group query may have inferred, instead of the start of the parsed range.
PayloadReturns_OptsStart(out, setPagesOK) ==
  /\ rets' = Append(rets, out.err)
  /\ ret' = [next |-> out.next, paginated |-> out.paginated]
  /\ resp' = IF out.err # NilErr
               THEN MakeJSONErrorResponder(out.err)
               ELSE newBuildloggerResponder(out.data, opts.TimeRange.StartAt, out.next,
                                            out.paginated, setPagesOK)
  /\ pc' = "done"

\* The four payload Run methods after the store call returned: the error check
\* and the responder.
PayloadReturns(out, setPagesOK) ==
  /\ rets' = Append(rets, out.err)
  /\ ret' = [next |-> out.next, paginated |-> out.paginated]
  /\ resp' = IF out.err # NilErr
               THEN MakeJSONErrorResponder(out.err)
               ELSE newBuildloggerResponder(out.data, h.tr.StartAt, out.next,
                                            out.paginated, setPagesOK)
  /\ pc' = "done"

\* --------------------------------------------------------------------- Run

logGetByIDHandler_Opts_PaginateOnly(hh) ==
  [ZeroOpts EXCEPT !.TimeRange = hh.tr,
                   !.Limit = hh.limit,
                   !.SoftSizeLimit = IF hh.paginate THEN Num(softSizeLimit) ELSE Num(0)]

logGetByIDHandler_Opts(hh) ==
  [ZeroOpts EXCEPT !.TimeRange = hh.tr,
                   !.Limit = hh.limit,
                   !.SoftSizeLimit = IF hh.paginate /\ IntLeqZero(hh.limit)
                                       THEN Num(softSizeLimit) ELSE Num(0)]

\* Run up to the store call.
logGetByIDHandler_Run ==
  /\ handler = "byID" /\ pc = "run"
  /\ opts' = logGetByIDHandler_Opts(h)
  /\ IssueCall("FindLogByID", opts')
  /\ pc' = "byID_find"
  /\ req' = ZeroReq
  /\ UNCHANGED <<handler, h, catcher, rets, testLogs, globalLogs, ret, resp>>

\* FindLogByID returns.
logGetByIDHandler_FindReturns ==
  /\ handler = "byID" /\ pc = "byID_find"
  /\ \E out \in PayloadOutcomes : \E ok \in SetPagesOutcomes(out) : PayloadReturns(out, ok)
  /\ UNCHANGED <<handler, req, h, catcher, opts, calls, testLogs, globalLogs>>

logGetByTaskIDHandler_OptsNoTail(hh) ==
  [ZeroOpts EXCEPT !.Execution = hh.execution,
                   !.TimeRange = hh.tr,
                   !.Limit = hh.limit,
                   !.Tail = hh.n,
                   !.SoftSizeLimit = IF hh.paginate /\ IntLeqZero(hh.limit)
                                       THEN Num(softSizeLimit) ELSE Num(0)]

logGetByTaskIDHandler_Opts(hh) ==
  [ZeroOpts EXCEPT !.Execution = hh.execution,
                   !.TimeRange = hh.tr,
                   !.Limit = hh.limit,
                   !.Tail = hh.n,
                   !.SoftSizeLimit = IF hh.paginate /\ IntLeqZero(hh.limit) /\ IntLeqZero(hh.n)
                                       THEN Num(softSizeLimit) ELSE Num(0)]

\* Run up to the store call.
logGetByTaskIDHandler_Run ==
  /\ handler = "byTask" /\ pc = "run"
  /\ opts' = logGetByTaskIDHandler_Opts(h)
  /\ IssueCall("FindLogsByTaskID", opts')
  /\ pc' = "byTask_find"
  /\ req' = ZeroReq
  /\ UNCHANGED <<handler, h, catcher, rets, testLogs, globalLogs, ret, resp>>

\* FindLogsByTaskID returns.
logGetByTaskIDHandler_FindReturns ==
  /\ handler = "byTask" /\ pc = "byTask_find"
  /\ \E out \in PayloadOutcomes : \E ok \in SetPagesOutcomes(out) : PayloadReturns(out, ok)
  /\ UNCHANGED <<handler, req, h, catcher, opts, calls, testLogs, globalLogs>>

logGetByTestNameHandler_Opts(hh) ==
  [ZeroOpts EXCEPT !.TestName = hh.name,
                   !.TimeRange = hh.tr,
                   !.Limit = hh.limit,
                   !.SoftSizeLimit = IF hh.paginate /\ IntLeqZero(hh.limit)
                                       THEN Num(softSizeLimit) ELSE Num(0)]

\* Run up to the store call.
logGetByTestNameHandler_Run ==
  /\ handler = "byTestName" /\ pc = "run"
  /\ opts' = logGetByTestNameHandler_Opts(h)
  /\ IssueCall("FindLogsByTestName", opts')
  /\ pc' = "byTestName_find"
  /\ req' = ZeroReq
  /\ UNCHANGED <<handler, h, catcher, rets, testLogs, globalLogs, ret, resp>>

\* FindLogsByTestName returns.
logGetByTestNameHandler_FindReturns ==
  /\ handler = "byTestName" /\ pc = "byTestName_find"
  /\ \E out \in PayloadOutcomes : \E ok \in SetPagesOutcomes(out) : PayloadReturns(out, ok)
  /\ UNCHANGED <<handler, req, h, catcher, opts, calls, testLogs, globalLogs>>

\* ------------------------------------------------ GET /buildlogger/{id}/meta (Run)

\* Run up to the store call, which is handed the id and no options.
logMetaGetByIDHandler_Run ==
  /\ handler = "metaByID" /\ pc = "run"
  /\ IssueCall("FindLogMetadataByID", ZeroOpts)
  /\ pc' = "metaByID_find"
  /\ req' = ZeroReq
  /\ UNCHANGED <<handler, h, catcher, opts, rets, testLogs, globalLogs, ret, resp>>

\* FindLogMetadataByID returns: any error, a 404 included, is the answer.
logMetaGetByIDHandler_FindReturns ==
  /\ handler = "metaByID" /\ pc = "metaByID_find"
  /\ \E out \in MetaByIDOutcomes :
       /\ rets' = Append(rets, out.err)
       /\ resp' = IF out.err # NilErr
                    THEN MakeJSONErrorResponder(out.err)
                    ELSE NewJSONResponse(out.log)
       /\ pc' = "done"
  /\ UNCHANGED <<handler, req, h, catcher, opts, calls, testLogs, globalLogs, ret>>

\* --------------------------------------- GET /buildlogger/task_id/{task_id}/meta (Run)

logMetaGetByTaskIDHandler_Run ==
  /\ handler = "metaByTask" /\ pc = "run"
  /\ opts' = [ZeroOpts EXCEPT !.Tags = h.tags]
  /\ IssueCall("FindLogMetadataByTaskID", opts')
  /\ pc' = "metaByTask_find"
  /\ req' = ZeroReq
  /\ UNCHANGED <<handler, h, catcher, rets, testLogs, globalLogs, ret, resp>>

\* FindLogMetadataByTaskID returns: any error, a 404 included, is the answer.
logMetaGetByTaskIDHandler_FindReturns ==
  /\ handler = "metaByTask" /\ pc = "metaByTask_find"
  /\ \E out \in MetaOutcomes(MaxLogs) :
       /\ rets' = Append(rets, out.err)
       /\ resp' = IF out.err # NilErr
                    THEN MakeJSONErrorResponder(out.err)
                    ELSE NewJSONResponse(out.logs)
       /\ pc' = "done"
  /\ UNCHANGED <<handler, req, h, catcher, opts, calls, testLogs, globalLogs, ret>>

\* ------------------------------------------- GET .../{test_name}/meta (Run)

\* err.(gimlet.ErrorResponse): ok exactly for a structured store error.
IsErrorResponse(err) == err.type = "ErrorResponse"

\* The condition under which Run answers the global fetch with an error.
GlobalFetchFails(err) ==
  err # NilErr /\ (~IsErrorResponse(err) \/ err.StatusCode = StatusNotFound)

logMetaGetByTestNameHandler_Run ==
  /\ handler = "metaByTestName" /\ pc = "run"
  /\ opts' = [ZeroOpts EXCEPT !.TestName = h.name, !.Tags = h.tags]
  /\ IssueCall("FindLogMetadataByTestName", opts')
  /\ pc' = "meta_test"
  /\ req' = ZeroReq
  /\ UNCHANGED <<handler, h, catcher, rets, testLogs, globalLogs, ret, resp>>

\* Mutation: the global fetch is issued whatever the test-scoped fetch returned.
logMetaGetByTestNameHandler_TestReturns_NoShortCircuit ==
  /\ handler = "metaByTestName" /\ pc = "meta_test"
  /\ \E out \in MetaOutcomes(MaxLogs) :
       /\ rets' = Append(rets, out.err)
       /\ testLogs' = out.logs
       /\ opts' = [opts EXCEPT !.TestName = ""]
       /\ IssueCall("FindLogMetadataByTestName", opts')
       /\ pc' = "meta_global"
       /\ UNCHANGED resp
  /\ UNCHANGED <<handler, req, h, catcher, globalLogs, ret>>

\* The test-scoped fetch returns: an error ends the request, otherwise the test
\* name is cleared and the global fetch is issued.
logMetaGetByTestNameHandler_TestReturns ==
  /\ handler = "metaByTestName" /\ pc = "meta_test"
  /\ \E out \in MetaOutcomes(MaxLogs) :
       /\ rets' = Append(rets, out.err)
       /\ IF out.err # NilErr
            THEN /\ resp' = MakeJSONErrorResponder(out.err)
                 /\ pc' = "done"
                 /\ UNCHANGED <<opts, calls, testLogs>>
            ELSE /\ testLogs' = out.logs
                 /\ opts' = [opts EXCEPT !.TestName = ""]
                 /\ IssueCall("FindLogMetadataByTestName", opts')
                 /\ pc' = "meta_global"
                 /\ UNCHANGED resp
  /\ UNCHANGED <<handler, req, h, catcher, globalLogs, ret>>

\* The global fetch returns.  The store holds at most MaxLogs entries for the task,
\* test-scoped and global together.
logMetaGetByTestNameHandler_GlobalReturns ==
  /\ handler = "metaByTestName" /\ pc = "meta_global"
  /\ \E out \in MetaOutcomes(MaxLogs - Len(testLogs)) :
       /\ rets' = Append(rets, out.err)
       /\ globalLogs' = out.logs
       /\ resp' = IF GlobalFetchFails(out.err)
                    THEN MakeJSONErrorResponder(out.err)
                    ELSE NewJSONResponse(testLogs \o out.logs)
       /\ pc' = "done"
  /\ UNCHANGED <<handler, req, h, catcher, opts, calls, testLogs, ret>>

\* ------------------------------------------------ GET .../group/{group_id} (Run)

\* Mutation: the group identifier is not appended to the tags.
logGroupHandler_Opts_NoGroupTag(hh) ==
  [ZeroOpts EXCEPT !.TestName = hh.name,
                   !.Tags = hh.tags,
                   !.TimeRange = hh.tr,
                   !.Limit = hh.limit,
                   !.SoftSizeLimit = IF hh.paginate /\ IntLeqZero(hh.limit)
                                       THEN Num(softSizeLimit) ELSE Num(0)]

logGroupHandler_Opts(hh) ==
  [ZeroOpts EXCEPT !.TestName = hh.name,
                   !.Tags = Append(hh.tags, hh.groupID),
                   !.TimeRange = hh.tr,
                   !.Limit = hh.limit,
                   !.SoftSizeLimit = IF hh.paginate /\ IntLeqZero(hh.limit)
                                       THEN Num(softSizeLimit) ELSE Num(0)]

\* One turn of the loop over testLogs.
InferStep(tr, log) ==
  [StartAt |-> IF tr.StartAt > log.CreatedAt \/ tr.StartAt = ZeroTime
                 THEN log.CreatedAt ELSE tr.StartAt,
   EndAt |-> IF tr.EndAt < log.CompletedAt THEN log.CompletedAt ELSE tr.EndAt]

RECURSIVE InferRange(_, _)
InferRange(tr, logs) ==
  IF logs = <<>> THEN tr ELSE InferRange(InferStep(tr, Head(logs)), Tail(logs))

\* Mutation: the range is inferred whether or not the parsed range is zero.
logGroupHandler_Run_AlwaysInfers ==
  /\ handler = "group" /\ pc = "run"
  /\ opts' = logGroupHandler_Opts(h)
  /\ IssueCall("FindLogMetadataByTestName", opts')
  /\ pc' = "group_meta"
  /\ req' = ZeroReq
  /\ UNCHANGED <<handler, h, catcher, rets, testLogs, globalLogs, ret, resp>>

\* Run up to its first store call: the metadata fetch when the range is zero,
\* FindGroupedLogs otherwise.
logGroupHandler_Run ==
  /\ handler = "group" /\ pc = "run"
  /\ opts' = logGroupHandler_Opts(h)
  /\ IF TimeRangeIsZero(opts'.TimeRange)
       THEN IssueCall("FindLogMetadataByTestName", opts') /\ pc' = "group_meta"
       ELSE IssueCall("FindGroupedLogs", opts') /\ pc' = "group_find"
  /\ req' = ZeroReq
  /\ UNCHANGED <<handler, h, catcher, rets, testLogs, globalLogs, ret, resp>>

\* Mutation: a failed metadata fetch falls through to FindGroupedLogs.
logGroupHandler_MetaReturns_FallsThrough ==
  /\ handler = "group" /\ pc = "group_meta"
  /\ \E out \in MetaOutcomes(MaxLogs) :
       /\ rets' = Append(rets, out.err)
       /\ testLogs' = out.logs
       /\ opts' = [opts EXCEPT !.TimeRange = InferRange(opts.TimeRange, out.logs)]
       /\ IssueCall("FindGroupedLogs", opts')
       /\ pc' = "group_find"
       /\ UNCHANGED resp
  /\ UNCHANGED <<handler, req, h, catcher, globalLogs, ret>>

\* The metadata fetch returns: an error ends the request, otherwise the range is
\* folded over the entries and FindGroupedLogs is called.
logGroupHandler_MetaReturns ==
  /\ handler = "group" /\ pc = "group_meta"
  /\ \E out \in MetaOutcomes(MaxLogs) :
       /\ rets' = Append(rets, out.err)
       /\ IF out.err # NilErr
            THEN /\ resp' = MakeJSONErrorResponder(out.err)
                 /\ pc' = "done"
                 /\ UNCHANGED <<opts, calls, testLogs>>
            ELSE /\ testLogs' = out.logs
                 /\ opts' = [opts EXCEPT !.TimeRange = InferRange(opts.TimeRange, out.logs)]
                 /\ IssueCall("FindGroupedLogs", opts')
                 /\ pc' = "group_find"
                 /\ UNCHANGED resp
  /\ UNCHANGED <<handler, req, h, catcher, globalLogs, ret>>

\* FindGroupedLogs returns; testLogs went out of scope with the if block.
logGroupHandler_FindReturns ==
  /\ handler = "group" /\ pc = "group_find"
  /\ \E out \in PayloadOutcomes : \E ok \in SetPagesOutcomes(out) : PayloadReturns(out, ok)
  /\ testLogs' = <<>>
  /\ UNCHANGED <<handler, req, h, catcher, opts, calls, globalLogs>>

\* ------------------------------------------------------------ specification

\* Factory: every request is served by a new handler whose fields are zero.
Fresh ==
  /\ pc = "parse"
  /\ req = ZeroReq
  /\ h = ZeroHandler
  /\ catcher = <<>>
  /\ opts = ZeroOpts
  /\ calls = <<>>
  /\ rets = <<>>
  /\ testLogs = <<>>
  /\ globalLogs = <<>>
  /\ ret = ZeroRet
  /\ resp = NoResp

Init == handler \in Handlers /\ Fresh

Factory ==
  /\ pc = "done"
  /\ handler' \in Handlers
  /\ pc' = "parse"
  /\ req' = ZeroReq
  /\ h' = ZeroHandler
  /\ catcher' = <<>>
  /\ opts' = ZeroOpts
  /\ calls' = <<>>
  /\ rets' = <<>>
  /\ testLogs' = <<>>
  /\ globalLogs' = <<>>
  /\ ret' = ZeroRet
  /\ resp' = NoResp

Next ==
  \/ logGetByIDHandler_Parse
  \/ logGetByIDHandler_Run
  \/ logGetByIDHandler_FindReturns
  \/ logMetaGetByIDHandler_Parse
  \/ logMetaGetByIDHandler_Run
  \/ logMetaGetByIDHandler_FindReturns
  \/ logGetByTaskIDHandler_Parse
  \/ logGetByTaskIDHandler_Run
  \/ logGetByTaskIDHandler_FindReturns
  \/ logMetaGetByTaskIDHandler_Parse
  \/ logMetaGetByTaskIDHandler_Run
  \/ logMetaGetByTaskIDHandler_FindReturns
  \/ logGetByTestNameHandler_Parse
  \/ logGetByTestNameHandler_Run
  \/ logGetByTestNameHandler_FindReturns
  \/ logMetaGetByTestNameHandler_Parse
  \/ logMetaGetByTestNameHandler_Run
  \/ logMetaGetByTestNameHandler_TestReturns
  \/ logMetaGetByTestNameHandler_GlobalReturns
  \/ logGroupHandler_Parse
  \/ logGroupHandler_Run
  \/ logGroupHandler_MetaReturns
  \/ logGroupHandler_FindReturns
  \/ Factory

Spec == Init /\ [][Next]_vars

\* ------------------------------------------------------------------ claims

NotFoundErr == [type |-> "ErrorResponse", StatusCode |-> 404]
PayloadHandlers == {"byID", "byTask", "byTestName", "group"}
PayloadCalls == {"FindLogByID", "FindLogsByTaskID", "FindLogsByTestName", "FindGroupedLogs"}
MetaCall == "FindLogMetadataByTestName"

\* The by-test-name metadata query has ended after both fetches returned.
MetaDoneAfterGlobal ==
  handler = "metaByTestName" /\ pc = "done" /\ Len(rets) = 2 /\ rets[1] = NilErr

\* C1: in the by-test-name metadata query, when the test-scoped fetch succeeds and
\* the global fetch fails with not-found, the call succeeds and returns exactly the
\* test-scoped list.
C1_NotFoundGlobalReturnsTestScoped ==
  (MetaDoneAfterGlobal /\ rets[2] = NotFoundErr)
    => (resp.kind = "json" /\ resp.list = testLogs)

\* C2: in the by-test-name metadata query, when the global fetch fails with an
\* error other than not-found, the call ends in an error response and returns no
\* metadata list.
C2_OtherGlobalErrorFailsCall ==
  (MetaDoneAfterGlobal /\ rets[2] # NilErr /\ rets[2] # NotFoundErr)
    => (resp.kind = "error" /\ resp.list = <<>>)

ActiveModes(o) ==
  {m \in {"Limit", "Tail", "SoftSizeLimit"} : IntGtZero(o[m])}

\* C3 (as stated): the options of every store call have at most one retrieval mode
\* active among Limit > 0, Tail > 0 and SoftSizeLimit > 0.
C3_AtMostOneModeActive ==
  \A i \in 1..Len(calls) : Cardinality(ActiveModes(calls[i].opts)) <= 1

\* C3 (amended): SoftSizeLimit > 0 is never handed to the store together with
\* Limit > 0 or Tail > 0, and outside the by-task endpoint at most one mode is
\* active; the by-task endpoint hands Limit and Tail as parsed, both possibly > 0.
C3_SoftSizeLimitExcludesLimitAndTail ==
  \A i \in 1..Len(calls) :
    LET o == calls[i].opts IN
      /\ IntGtZero(o.SoftSizeLimit) => (IntLeqZero(o.Limit) /\ IntLeqZero(o.Tail))
      /\ calls[i].fn # "FindLogsByTaskID" => Cardinality(ActiveModes(o)) <= 1
      /\ calls[i].fn = "FindLogsByTaskID" => (o.Limit = h.limit /\ o.Tail = h.n)

\* The by-task endpoint was asked for paginate, limit > 0 and n > 0 at once.
C3_Witness ==
  /\ handler = "byTask" /\ pc = "done" /\ Len(calls) = 1
  /\ h.paginate /\ IntGtZero(h.limit) /\ IntGtZero(h.n)
  /\ IntGtZero(calls[1].opts.Limit) /\ IntGtZero(calls[1].opts.Tail)
  /\ calls[1].opts.SoftSizeLimit = Num(0)

MinCreatedAt(logs) ==
  CHOOSE m \in {logs[i].CreatedAt : i \in 1..Len(logs)} :
    \A i \in 1..Len(logs) : m <= logs[i].CreatedAt
MaxCompletedAt(logs) ==
  CHOOSE m \in {logs[i].CompletedAt : i \in 1..Len(logs)} :
    \A i \in 1..Len(logs) : m >= logs[i].CompletedAt
Reorderings(logs) ==
  {[i \in 1..Len(logs) |-> logs[f[i]]] :
     f \in {g \in [1..Len(logs) -> 1..Len(logs)] :
              \A a, b \in 1..Len(logs) : g[a] = g[b] => a = b}}

\* The group query inferred its range from a non-empty list and called FindGroupedLogs.
InferredFromEntries ==
  /\ handler = "group" /\ pc = "group_find" /\ Len(calls) = 2
  /\ calls[1].fn = MetaCall /\ testLogs # <<>>

\* C4: the range inferred for a grouped query with a zero range has StartAt = the
\* minimum CreatedAt and EndAt = the maximum CompletedAt of the entries, and is the
\* same for every permutation of the entries.
C4_InferredRangeIsMinMax ==
  InferredFromEntries =>
    /\ calls[2].opts.TimeRange.StartAt = MinCreatedAt(testLogs)
    /\ calls[2].opts.TimeRange.EndAt = MaxCompletedAt(testLogs)
    /\ \A q \in Reorderings(testLogs) :
         InferRange(ZeroRange, q) = calls[2].opts.TimeRange

\* C5: on every payload endpoint the soft size limit handed to the store is 10 MiB
\* when paginate is true, limit <= 0 and (by-task only) n <= 0, and 0 otherwise.
C5_SoftSizeLimitExactly10MiB ==
  /\ (pc = "run" /\ handler \in PayloadHandlers) => (h.paginate <=> req.paginate = "true")
  /\ \A i \in 1..Len(calls) :
       calls[i].fn \in PayloadCalls =>
         calls[i].opts.SoftSizeLimit =
           IF /\ h.paginate
              /\ IntLeqZero(h.limit)
              /\ (calls[i].fn = "FindLogsByTaskID" => IntLeqZero(h.n))
             THEN Num(10485760) ELSE Num(0)

\* A paginated by-task request without limit or n reached the store with the cap.
C5_Witness ==
  /\ handler = "byTask" /\ pc = "done" /\ Len(calls) = 1
  /\ h.paginate /\ IntLeqZero(h.limit) /\ IntLeqZero(h.n)
  /\ calls[1].opts.SoftSizeLimit = Num(10485760)

\* Parse has returned and Run has not started.
AfterParse == pc = "run" \/ (pc = "done" /\ resp.err = ParseErr)
Malformed(r) ==
  {p \in {"start", "end"} : r[p].k = "bad"}
    \cup {p \in {"limit", "execution", "n"} :
            r[p].k = "bad" \/ (r[p].k = "val" /\ ~InIntRange(r[p].v))}

\* C6: Parse is not fail-fast: it examines every parameter and its error names each
\* malformed parameter, once; it returns nil only when no parameter is malformed.
C6_ParseReportsEveryMalformedParameter ==
  AfterParse =>
    /\ Resolve(catcher) = Malformed(req)
    /\ \A p \in Malformed(req) :
         Cardinality({i \in 1..Len(catcher) : p \in catcher[i]}) = 1
    /\ (pc = "run") <=> (Malformed(req) = {})

\* A by-task request with a malformed execution, a limit above and an n below the
\* range of int was refused; the handler holds the values Atoi returned with the errors.
C6_Witness ==
  /\ handler = "byTask" /\ pc = "done" /\ resp.err = ParseErr
  /\ req.execution = Bad /\ req.limit = TooBig /\ req.n = TooSmall
  /\ {"execution", "limit", "n"} \subseteq Malformed(req)
  /\ Len(catcher) >= 3
  /\ h.execution = Num(0) /\ h.limit = IntMax /\ h.n = IntMin

\* C7: in the by-test-name metadata query the global fetch is issued only after the
\* test-scoped fetch returned successfully; when the test-scoped fetch fails, the
\* call ends with that error and no global fetch is issued.
C7_GlobalFetchOnlyAfterTestFetchSucceeds ==
  handler = "metaByTestName" =>
    /\ Len(calls) <= 2
    /\ Len(calls) >= 1 => calls[1].opts.TestName = h.name
    /\ Len(calls) = 2 =>
         (Len(rets) >= 1 /\ rets[1] = NilErr /\ calls[2].opts.TestName = "")
    /\ (Len(rets) >= 1 /\ rets[1] # NilErr) =>
         (Len(calls) = 1 /\ pc = "done" /\ resp.kind = "error" /\ resp.err = rets[1])

\* The test-scoped fetch failed and the request ended.
C7_Witness ==
  /\ handler = "metaByTestName" /\ pc = "done"
  /\ Len(rets) = 1 /\ rets[1] # NilErr /\ Len(calls) = 1

\* C8: when the metadata fetch of range inference fails, the group query ends with
\* an error response and FindGroupedLogs is never called.
C8_FailedInferenceFetchFailsGroupQuery ==
  (handler = "group" /\ Len(rets) >= 1 /\ calls[1].fn = MetaCall /\ rets[1] # NilErr) =>
    /\ pc = "done"
    /\ resp.kind = "error" /\ resp.err = rets[1]
    /\ \A i \in 1..Len(calls) : calls[i].fn # "FindGroupedLogs"

\* The inference fetch of a group query failed.
C8_Witness ==
  /\ handler = "group" /\ pc = "done" /\ Len(calls) = 1
  /\ calls[1].fn = MetaCall /\ Len(rets) = 1 /\ rets[1] # NilErr

\* C9: range inference happens exactly when the grouped query's range is zero: with
\* neither start nor end the range is zero and the metadata fetch precedes
\* FindGroupedLogs; a non-zero parsed range is handed to FindGroupedLogs unchanged
\* with no metadata fetch; with zero entries the range handed on is still zero.
C9_InferenceExactlyWhenRangeIsZero ==
  handler = "group" =>
    /\ (pc = "run" /\ req.start = Absent /\ req.end = Absent) => TimeRangeIsZero(h.tr)
    /\ Len(calls) >= 1 => (calls[1].fn = MetaCall <=> TimeRangeIsZero(h.tr))
    /\ \A i \in 1..Len(calls) :
         calls[i].fn = "FindGroupedLogs" =>
           IF TimeRangeIsZero(h.tr)
             THEN i = 2 /\ rets[1] = NilErr
             ELSE i = 1 /\ calls[i].opts.TimeRange = h.tr
    /\ (pc = "group_find" /\ Len(calls) = 2 /\ testLogs = <<>>) =>
         TimeRangeIsZero(calls[2].opts.TimeRange)

\* Inference found no entry and FindGroupedLogs was called.
C9_Witness ==
  /\ handler = "group" /\ pc = "group_find" /\ Len(calls) = 2
  /\ calls[1].fn = MetaCall /\ calls[2].fn = "FindGroupedLogs" /\ testLogs = <<>>

\* A payload request has been answered from a store call.
PayloadAnswered == handler \in PayloadHandlers /\ pc = "done" /\ Len(calls) >= 1

\* C10 (as stated): a request whose options had SoftSizeLimit = 0 gets a response
\* without prev/next links, whatever the store returns.
C10_NoLinksWithoutSoftSizeLimit ==
  (PayloadAnswered /\ calls[Len(calls)].opts.SoftSizeLimit = Num(0)) => resp.pages = <<>>

\* C10 (amended): a response carries prev/next links only when the store call
\* succeeded and reported Paginated = true, and a text response carries them exactly
\* then; the retrieval mode is not consulted.
C10_LinksExactlyWhenStoreReportsPaginated ==
  PayloadAnswered =>
    /\ resp.pages # <<>> =>
         (resp.kind = "text" /\ rets[Len(rets)] = NilErr /\ ret.paginated)
    /\ resp.kind = "text" => (resp.pages # <<>> <=> ret.paginated)
    /\ (calls[Len(calls)].fn \in PayloadCalls /\ rets[Len(rets)] = NilErr /\ ~ret.paginated)
         => (resp.kind = "text" /\ resp.pages = <<>>)

\* The store reported Paginated for a request without a soft size limit: links are set.
C10_Witness ==
  /\ PayloadAnswered /\ calls[Len(calls)].opts.SoftSizeLimit = Num(0)
  /\ ret.paginated /\ Len(resp.pages) = 2

\* C11: whenever pagination links are built, the Prev key is the start instant of
\* the range the client requested (for a grouped query with an inferred range the
\* zero start, not the inferred StartAt) and the Next key is the continuation
\* instant the store returned, both as RFC3339, both with the same base location
\* and the start/limit parameter names.
C11_PrevIsRequestedStartNextIsContinuation ==
  (PayloadAnswered /\ resp.pages # <<>>) =>
    /\ Len(resp.pages) = 2
    /\ resp.pages[1].Relation = "prev" /\ resp.pages[2].Relation = "next"
    /\ resp.pages[1].Key = FormatRFC3339(h.tr.StartAt)
    /\ resp.pages[2].Key = FormatRFC3339(ret.next)
    /\ (handler = "group" /\ calls[1].fn = MetaCall) =>
         resp.pages[1].Key = FormatRFC3339(ZeroTime)
    /\ \A i \in 1..2 :
         /\ resp.pages[i].BaseURL = "https://cedar.mongodb.com"
         /\ resp.pages[i].KeyQueryParam = "start"
         /\ resp.pages[i].LimitQueryParam = "limit"

\* A grouped query whose range was inferred with a non-zero StartAt got links, and
\* the store's continuation instant differs from the requested start.
C11_Witness ==
  /\ handler = "group" /\ pc = "done" /\ Len(calls) = 2 /\ Len(resp.pages) = 2
  /\ opts.TimeRange.StartAt # ZeroTime /\ h.tr.StartAt = ZeroTime
  /\ ret.next # ZeroTime
  /\ resp.pages[1].Key # resp.pages[2].Key

\* C12: in every grouped query, the tags of every store call (the inference
\* metadata fetch and FindGroupedLogs) end with the group identifier, preceded by
\* the explicit tags in the order given, duplicates kept; also with no explicit tag.
C12_GroupTagsEndWithGroupID ==
  handler = "group" =>
    /\ (pc = "run") => (h.tags = req.tags /\ h.groupID = req.groupID)
    /\ \A i \in 1..Len(calls) :
         LET t == calls[i].opts.Tags IN
           /\ Len(t) = Len(h.tags) + 1
           /\ t[Len(t)] = h.groupID
           /\ \A j \in 1..Len(h.tags) : t[j] = h.tags[j]

\* A grouped query with a repeated tag equal to the group identifier went through
\* inference and FindGroupedLogs.
C12_Witness ==
  /\ handler = "group" /\ Len(calls) = 2
  /\ calls[1].fn = MetaCall /\ calls[2].fn = "FindGroupedLogs"
  /\ h.tags = <<"a", "a">> /\ h.groupID = "a"
  /\ calls[2].opts.Tags = <<"a", "a", "a">>

\* A grouped query without explicit tags reached the store.
C12_NoTagsReached ==
  /\ handler = "group" /\ Len(calls) >= 1 /\ h.tags = <<>>
  /\ calls[1].opts.Tags = <<h.groupID>>

====
